---- MODULE Spec2Model ----
(***************************************************************************)
(* LabPulse dashboard: ranking (Rankings.tsx), alert rules and data status *)
(* (Dashboard.ts), period resolution and loads (Overview.tsx,              *)
(* Rankings.tsx), compliance streaks.                                      *)
(*                                                                         *)
(* The specifications share the module's variables:                        *)
(*   SpecRanker     - sortAndRankData applied to a bounded input list      *)
(*   SpecAlerts     - generateAlerts applied to a bounded office summary   *)
(*   Spec           - the Overview and Rankings views as state machines    *)
(*   SpecPeriod     - getDateRange of either view over its input types     *)
(*   SpecStatus     - getDataStatus applied to an office summary           *)
(*   SpecLoad       - one loadRankings call settling, and the quick stats  *)
(*   SpecCompliance - the compliance record of a weekly history            *)
(*   SpecSorts      - the sorted lists of the Compliance and Overview pages *)
(*   SpecForm       - the notes form: edits, saves and their settling       *)
(*   SpecSelector   - MonthOfficeSelector and the month it selects          *)
(*   SpecCard       - one render of OfficeCard for an office summary        *)
(* Variables a specification does not use stay at their parked values.     *)
(***************************************************************************)
EXTENDS Integers, Sequences, FiniteSets, TLC

VARIABLES
    pc,               \* position of the function-level harnesses
    data,             \* the any[] handed to sortAndRankData
    selectedMetric,   \* Rankings.tsx:32
    rankings,         \* Rankings.tsx:34
    office,           \* the OfficeSummary handed to generateAlerts
    alerts,           \* the Alert[] generateAlerts returned
    page,             \* which view is mounted
    today,            \* the value new Date() yields: [year, month]
    selectedPeriod,   \* Overview.tsx:47, Rankings.tsx:33
    customMonth,      \* Overview.tsx:49
    customYear,       \* Overview.tsx:50
    showCustomPicker, \* Overview.tsx:51
    loading,          \* Overview.tsx:24, Rankings.tsx:35
    error,            \* Overview.tsx:25
    allOffices,       \* Overview.tsx:23
    inflight,         \* invoke() calls that have not settled yet
    rankingsFor,      \* history: the request whose settling set `rankings`
    officeFailed,     \* history: the repository failed for one office during
                      \* the get_dashboard_data call that settled last
    returnedRange,    \* what a harnessed getDateRange call returned
    dataStatus,       \* what a harnessed getDataStatus call returned
    history,          \* an office's weekly submissions, oldest first
    complianceRecord, \* the ComplianceData computed from `history`
    complianceData,   \* part_000:17 (Compliance page)
    sortBy,           \* part_000:19, Overview.tsx:35
    dfoFilter,        \* part_000:20
    filters,          \* Overview.tsx:28
    selectedMonth,    \* part_001:27 (data entry page)
    selectedYear,     \* part_001:28
    noteText,         \* part_006:17 (NotesSection)
    saving,           \* part_006:19
    saveStatus,       \* part_006:20
    hasUnsavedChanges, \* part_006:21
    savedText,        \* history: the note last loaded or successfully saved
    pendingSave,      \* save_note calls that have not settled yet
    statusTimers      \* pending setTimeout(() => setSaveStatus('idle'), 3000)

rankerVars_noPc == <<data, selectedMetric, rankings>>
alertVars  == <<office, alerts>>
listVars     == <<complianceData, sortBy, dfoFilter, filters>>
selectorVars == <<selectedMonth, selectedYear>>
formVars     == <<noteText, saving, saveStatus, hasUnsavedChanges, savedText, pendingSave,
                  statusTimers>>
\* the state of the load logic of the Overview and Rankings views
loadVars   == <<today, selectedPeriod, customMonth, customYear,
                showCustomPicker, loading, error, inflight,
                rankingsFor, officeFailed>>
viewVars   == <<page, today, selectedPeriod, customMonth, customYear,
                showCustomPicker, loading, error, allOffices, inflight,
                rankingsFor, officeFailed, listVars, selectorVars, formVars>>
harnessVars == <<returnedRange, dataStatus, history, complianceRecord>>
\* what the handlers of the Overview view, and of the Rankings view, never touch
overviewFrame == <<pc, data, selectedMetric, rankings, office, alerts, page, today,
                   rankingsFor, returnedRange, dataStatus, history, complianceRecord,
                   listVars, selectorVars, formVars>>
rankingsFrame == <<pc, data, office, alerts, page, today, customMonth, customYear,
                   showCustomPicker, error, allOffices, officeFailed,
                   returnedRange, dataStatus, history, complianceRecord,
                   listVars, selectorVars, formVars>>
vars == <<pc, data, selectedMetric, rankings, office, alerts, page, today,
          selectedPeriod, customMonth, customYear, showCustomPicker, loading,
          error, allOffices, inflight, rankingsFor, officeFailed,
          returnedRange, dataStatus, history, complianceRecord,
          complianceData, sortBy, dfoFilter, filters, selectedMonth, selectedYear,
          noteText, saving, saveStatus, hasUnsavedChanges, savedText, pendingSave,
          statusTimers>>

-----------------------------------------------------------------------------
(* Bounds *)

MaxLen == 4          \* longest list handed to sortAndRankData
MaxInflight == 2     \* invoke() calls pending at once in a view
FirstYear == 2026    \* the year of the current date

-----------------------------------------------------------------------------
(* JavaScript values *)

\* `null` and `undefined` are encoded as negative integers; every number the
\* program handles here (percentages, counts, currency) is non-negative.
Undefined == -1
Null == -2

\* Only the sign of a comparator's result matters to Array.prototype.sort and
\* a NaN result (Infinity - Infinity) counts as +0, so Infinity is any number
\* above every value.
Infinity == 1000000

\* JavaScript `v || d`
OrElse(v, d) == IF v = 0 \/ v = Null \/ v = Undefined THEN d ELSE v

\* ToNumber as applied by the relational operators: null is 0, undefined is
\* NaN (every comparison with it is false).
GreaterThan_absentIsHigh(v, n) == IF v = Undefined THEN FALSE
                                  ELSE IF v = Null THEN TRUE
                                  ELSE v > n
GreaterThan(v, n) == IF v = Undefined THEN FALSE
                     ELSE IF v = Null THEN 0 > n
                     ELSE v > n

GreaterOrEqual(v, n) == IF v = Undefined THEN FALSE
                        ELSE IF v = Null THEN 0 >= n
                        ELSE v >= n

-----------------------------------------------------------------------------
(* Rankings.tsx: sortAndRankData *)

MetricType == {"revenue", "lab_expense_percent", "personnel_expense_percent",
               "total_weekly_units", "backlog_in_lab", "backlog_in_clinic",
               "data_completeness"}

lowerIsBetter(metric) ==
    metric \in {"lab_expense_percent", "personnel_expense_percent",
                "backlog_in_lab", "backlog_in_clinic"}

withData_truthy(d) == SelectSeq(d, LAMBDA item : OrElse(item.value, Null) # Null)
withData(d) == SelectSeq(d, LAMBDA item : item.value # Null)

compareFn(a, b, metric) ==
    IF lowerIsBetter(metric)
    THEN OrElse(a.value, Infinity) - OrElse(b.value, Infinity)
    ELSE OrElse(b.value, -Infinity) - OrElse(a.value, -Infinity)

\* Array.prototype.sort: stable, and for a consistent comparator the result
\* is the one an insertion sort produces.
RECURSIVE InsertAfterEquals(_, _, _)
InsertAfterEquals(x, s, metric) ==
    IF s = <<>> THEN <<x>>
    ELSE IF compareFn(Head(s), x, metric) <= 0
         THEN <<Head(s)>> \o InsertAfterEquals(x, Tail(s), metric)
         ELSE <<x>> \o s

RECURSIVE InsertBeforeEquals(_, _, _)
InsertBeforeEquals(x, s, metric) ==
    IF s = <<>> THEN <<x>>
    ELSE IF compareFn(Head(s), x, metric) < 0
         THEN <<Head(s)>> \o InsertBeforeEquals(x, Tail(s), metric)
         ELSE <<x>> \o s

RECURSIVE sort_unstable(_, _)
sort_unstable(s, metric) ==
    IF s = <<>> THEN <<>>
    ELSE InsertBeforeEquals(s[Len(s)], sort_unstable(SubSeq(s, 1, Len(s) - 1), metric), metric)

RECURSIVE sort(_, _)
sort(s, metric) ==
    IF s = <<>> THEN <<>>
    ELSE InsertAfterEquals(s[Len(s)], sort(SubSeq(s, 1, Len(s) - 1), metric), metric)

\* office_name, address and dfo are copied next to office_id and read by no
\* decision; office_id stands for the office's identity.
ranked(sorted) ==
    [index \in 1..Len(sorted) |->
        [office_id |-> sorted[index].office_id,
         value     |-> sorted[index].value,
         rank      |-> index]]

\* Arrays are objects: a heap maps references to array contents. filter, map
\* and spread allocate a new array; sort reorders the array it is called on
\* and returns that same array.
NewArray(heap, items) ==
    LET ref == Cardinality(DOMAIN heap) + 1
    IN  [heap |-> heap @@ (ref :> items), ref |-> ref]

SortInPlace(heap, ref, sorted) ==
    [heap |-> [heap EXCEPT ![ref] = sorted], ref |-> ref]

\* the call sortAndRankData(data) with `data` at reference 1: what it returns
\* and what `data` holds afterwards
sortAndRankData_sortsInput(d, metric) ==
    LET heap0    == (1 :> d)
        sorted   == SortInPlace(heap0, 1, sort(heap0[1], metric))
        filtered == NewArray(sorted.heap, withData(sorted.heap[sorted.ref]))
        result   == NewArray(filtered.heap, ranked(filtered.heap[filtered.ref]))
    IN  [returned |-> result.heap[result.ref], data |-> result.heap[1]]
sortAndRankData_call(d, metric) ==
    LET heap0    == (1 :> d)
        filtered == NewArray(heap0, withData(heap0[1]))
        sorted   == SortInPlace(filtered.heap, filtered.ref,
                                sort(filtered.heap[filtered.ref], metric))
        result   == NewArray(sorted.heap, ranked(sorted.heap[sorted.ref]))
    IN  [returned |-> result.heap[result.ref], data |-> result.heap[1]]

sortAndRankData(d, metric) == sortAndRankData_call(d, metric).returned

-----------------------------------------------------------------------------
(* Dashboard.ts: generateAlerts *)

\* Number.prototype.toFixed(1) of a whole number: the integer part and one
\* decimal digit; String(n) of a whole number: its digits.
toFixed1(v) == <<v, 0>>
numToString(v) == <<v>>

Alert(sev, text, shown, rule) ==
    [severity |-> sev, message |-> <<text, shown, rule>>]

noDataAlert == [severity |-> "info", message |-> <<"No data entered for this month">>]

labAlerts_inclusive(o) ==
    IF o.lab_exp_percent # Undefined
    THEN IF GreaterOrEqual(o.lab_exp_percent, 25)
         THEN <<Alert("critical", "Lab expenses at ", toFixed1(o.lab_exp_percent), "% (>25% critical)")>>
         ELSE IF GreaterOrEqual(o.lab_exp_percent, 20)
              THEN <<Alert("warning", "Lab expenses at ", toFixed1(o.lab_exp_percent), "% (>20% warning)")>>
              ELSE <<>>
    ELSE <<>>
labAlerts_both(o) ==
    IF o.lab_exp_percent # Undefined
    THEN (IF GreaterThan(o.lab_exp_percent, 25)
          THEN <<Alert("critical", "Lab expenses at ", toFixed1(o.lab_exp_percent), "% (>25% critical)")>>
          ELSE <<>>)
         \o
         (IF GreaterThan(o.lab_exp_percent, 20)
          THEN <<Alert("warning", "Lab expenses at ", toFixed1(o.lab_exp_percent), "% (>20% warning)")>>
          ELSE <<>>)
    ELSE <<>>
labAlerts(o) ==
    IF o.lab_exp_percent # Undefined
    THEN IF GreaterThan(o.lab_exp_percent, 25)
         THEN <<Alert("critical", "Lab expenses at ", toFixed1(o.lab_exp_percent), "% (>25% critical)")>>
         ELSE IF GreaterThan(o.lab_exp_percent, 20)
              THEN <<Alert("warning", "Lab expenses at ", toFixed1(o.lab_exp_percent), "% (>20% warning)")>>
              ELSE <<>>
    ELSE <<>>

personnelAlerts(o) ==
    IF o.personnel_percent # Undefined
    THEN IF GreaterThan(o.personnel_percent, 20)
         THEN <<Alert("critical", "Personnel at ", toFixed1(o.personnel_percent), "% (>20% critical)")>>
         ELSE IF GreaterThan(o.personnel_percent, 15)
              THEN <<Alert("warning", "Personnel at ", toFixed1(o.personnel_percent), "% (>15% warning)")>>
              ELSE <<>>
    ELSE <<>>

backlogAlerts(o) ==
    IF o.backlog_count # Undefined
    THEN IF GreaterThan(o.backlog_count, 100)
         THEN <<Alert("critical", "Backlog: ", numToString(o.backlog_count), " cases (>100 critical)")>>
         ELSE IF GreaterThan(o.backlog_count, 50)
              THEN <<Alert("warning", "Backlog: ", numToString(o.backlog_count), " cases (>50 warning)")>>
              ELSE <<>>
    ELSE <<>>

generateAlerts_noShortCircuit(o) ==
    (IF ~o.has_financial /\ ~o.has_operations /\ ~o.has_volume
     THEN <<noDataAlert>> ELSE <<>>)
    \o labAlerts(o) \o personnelAlerts(o) \o backlogAlerts(o)
generateAlerts_criticalFirst(o) ==
    IF ~o.has_financial /\ ~o.has_operations /\ ~o.has_volume
    THEN <<noDataAlert>>
    ELSE LET all == labAlerts(o) \o personnelAlerts(o) \o backlogAlerts(o)
         IN  SelectSeq(all, LAMBDA a : a.severity = "critical")
             \o SelectSeq(all, LAMBDA a : a.severity # "critical")
generateAlerts(o) ==
    IF ~o.has_financial /\ ~o.has_operations /\ ~o.has_volume
    THEN <<noDataAlert>>
    ELSE labAlerts(o) \o personnelAlerts(o) \o backlogAlerts(o)

-----------------------------------------------------------------------------
(* Overview.tsx, Rankings.tsx: getDateRange *)

TimePeriod == {"current_month", "last_month", "qtd", "ytd", "custom"}

DateRange(sy, sm, ey, em) ==
    [startYear |-> sy, startMonth |-> sm, endYear |-> ey, endMonth |-> em]

\* Math.ceil(n / d) for positive whole n and d
MathCeilDiv(n, d) == IF n % d = 0 THEN n \div d ELSE n \div d + 1
\* Math.floor(n / d) for whole n >= 0 and d > 0
MathFloorDiv(n, d) == n \div d

currentMonthRange(now) == DateRange(now.year, now.month, now.year, now.month)

lastMonthRange_noRollover(now) ==
    DateRange(now.year, now.month - 1, now.year, now.month - 1)
lastMonthRange(now) ==
    LET lastMonth     == IF now.month = 1 THEN 12 ELSE now.month - 1
        lastMonthYear == IF now.month = 1 THEN now.year - 1 ELSE now.year
    IN  DateRange(lastMonthYear, lastMonth, lastMonthYear, lastMonth)

qtdRange_floorQuarter(now) ==
    LET currentQuarter    == MathFloorDiv(now.month, 3)
        quarterStartMonth == (currentQuarter - 1) * 3 + 1
    IN  DateRange(now.year, quarterStartMonth, now.year, now.month)
qtdRange_nextQuarter(now) ==
    LET currentQuarter    == MathCeilDiv(now.month, 3)
        quarterStartMonth == currentQuarter * 3 + 1
    IN  DateRange(now.year, quarterStartMonth, now.year, now.month)
qtdRange(now) ==
    LET currentQuarter    == MathCeilDiv(now.month, 3)
        quarterStartMonth == (currentQuarter - 1) * 3 + 1
    IN  DateRange(now.year, quarterStartMonth, now.year, now.month)

ytdRange_wholeYear(now) == DateRange(now.year, 1, now.year, 12)
ytdRange(now) == DateRange(now.year, 1, now.year, now.month)

\* Overview.tsx getDateRange
Overview_getDateRange(period, now, cMonth, cYear) ==
    CASE period = "current_month" -> currentMonthRange(now)
      [] period = "last_month"    -> lastMonthRange(now)
      [] period = "qtd"           -> qtdRange(now)
      [] period = "ytd"           -> ytdRange(now)
      [] period = "custom"        -> DateRange(cYear, cMonth, cYear, cMonth)
      [] OTHER                    -> currentMonthRange(now)

\* Rankings.tsx getDateRange: no case for custom
Rankings_getDateRange(period, now) ==
    CASE period = "current_month" -> currentMonthRange(now)
      [] period = "last_month"    -> lastMonthRange(now)
      [] period = "qtd"           -> qtdRange(now)
      [] period = "ytd"           -> ytdRange(now)
      [] OTHER                    -> currentMonthRange(now)

-----------------------------------------------------------------------------
(* Parked values of the variables a specification does not use *)

NoRange == DateRange(0, 0, 0, 0)
NoRequest == [cmd |-> "", metric |-> "", range |-> NoRange]
NoCompliance == [total_weeks |-> 0, submitted_weeks |-> 0, compliance_rate |-> 0,
                 current_streak |-> 0, longest_streak |-> 0,
                 recent_submissions |-> <<>>]
NoOffice == [has_financial |-> FALSE, has_operations |-> FALSE,
             has_volume |-> FALSE, has_notes |-> FALSE,
             lab_exp_percent |-> Undefined, personnel_percent |-> Undefined,
             backlog_count |-> Undefined]

RankerParked == /\ data = <<>>
                /\ selectedMetric = "revenue"
                /\ rankings = <<>>
AlertsParked == /\ office = NoOffice
                /\ alerts = <<>>
NoFilters == [dataStatus |-> "all"]
ListsParked == /\ complianceData = <<>>
               /\ sortBy = ""
               /\ dfoFilter = ""
               /\ filters = NoFilters
SelectorParked == /\ selectedMonth = 0
                  /\ selectedYear = 0
FormParked == /\ noteText = 0
              /\ saving = FALSE
              /\ saveStatus = "idle"
              /\ hasUnsavedChanges = FALSE
              /\ savedText = 0
              /\ pendingSave = <<>>
              /\ statusTimers = 0
LoadsParked == /\ today = [year |-> 0, month |-> 0]
               /\ selectedPeriod = "current_month"
               /\ customMonth = 0
               /\ customYear = 0
               /\ showCustomPicker = FALSE
               /\ loading = FALSE
               /\ error = "null"
               /\ inflight = <<>>
               /\ rankingsFor = NoRequest
               /\ officeFailed = FALSE
ViewsParked  == /\ page = "none"
                /\ ListsParked
                /\ SelectorParked
                /\ FormParked
                /\ today = [year |-> 0, month |-> 0]
                /\ selectedPeriod = "current_month"
                /\ customMonth = 0
                /\ customYear = 0
                /\ showCustomPicker = FALSE
                /\ loading = FALSE
                /\ error = "null"
                /\ allOffices = [fetchedFor |-> NoRange]
                /\ inflight = <<>>
                /\ rankingsFor = NoRequest
                /\ officeFailed = FALSE
HarnessParked == /\ returnedRange = NoRange
                 /\ dataStatus = ""
                 /\ history = <<>>
                 /\ complianceRecord = NoCompliance

-----------------------------------------------------------------------------
(* SpecRanker: sortAndRankData over bounded inputs *)

RankValues == {0, 40, 120}

\* the i-th entry of a list is office i
Entries(f) == [i \in DOMAIN f |-> [office_id |-> i, value |-> f[i]]]
DataLists == UNION { { Entries(f) : f \in [1..k -> RankValues \cup {Null}] } : k \in 0..MaxLen }

InitRanker ==
    /\ pc = "call"
    /\ data \in DataLists
    /\ selectedMetric \in MetricType
    /\ rankings = <<>>
    /\ AlertsParked
    /\ ViewsParked
    /\ HarnessParked

CallSortAndRankData ==
    /\ pc = "call"
    /\ rankings' = sortAndRankData(data, selectedMetric)
    /\ data' = sortAndRankData_call(data, selectedMetric).data
    /\ pc' = "done"
    /\ UNCHANGED <<selectedMetric, alertVars, viewVars, harnessVars>>

NextRanker == CallSortAndRankData

SpecRanker == InitRanker /\ [][NextRanker]_vars

\* the metrics the ranking treats as lower-is-better
LowerIsBetterMetrics == {"lab_expense_percent", "personnel_expense_percent",
                         "backlog_in_lab", "backlog_in_clinic"}

PresentCount == Cardinality({i \in DOMAIN data : data[i].value # Null})

\* C1: the list sortAndRankData returns is non-decreasing by value for a
\* lower-is-better metric and non-increasing by value for every other metric.
C1_SortedByDirection ==
    pc = "done" =>
        \A i \in 1..(Len(rankings) - 1) :
            IF selectedMetric \in LowerIsBetterMetrics
            THEN rankings[i].value <= rankings[i + 1].value
            ELSE rankings[i].value >= rankings[i + 1].value

\* C2: the output has as many entries as the input has non-null values, is
\* never longer than the input, is strictly shorter when a value is missing,
\* and its ranks are 1, 2, ..., len(output) in output order.
C2_LengthAndDenseRanks ==
    pc = "done" =>
        /\ Len(rankings) = PresentCount
        /\ Len(rankings) <= Len(data)
        /\ (\E i \in DOMAIN data : data[i].value = Null) => Len(rankings) < Len(data)
        /\ \A i \in 1..Len(rankings) : rankings[i].rank = i

C2_Witness ==
    /\ pc = "done"
    /\ \E i \in DOMAIN data : data[i].value = Null
    /\ \E i \in DOMAIN data : data[i].value = 0
    /\ Len(rankings) = 3
    /\ Len(data) = 4

\* C3: entries with equal values sit next to each other in the output with
\* consecutive ranks and in their input order (office i is the i-th input
\* entry), for both directions; lower-is-better over A:120, B:absent, C:40,
\* D:40 yields C, D, A with ranks 1, 2, 3.
C3_TiesKeepInputOrder ==
    pc = "done" =>
        /\ \A i, j \in 1..Len(rankings) :
              (i < j /\ rankings[i].value = rankings[j].value) =>
                  /\ rankings[i].office_id < rankings[j].office_id
                  /\ rankings[j].rank - rankings[i].rank = j - i
                  /\ \A k \in i..j : rankings[k].value = rankings[i].value
        /\ (/\ selectedMetric = "backlog_in_lab"
            /\ data = Entries(<<120, Null, 40, 40>>))
           => rankings = << [office_id |-> 3, value |-> 40, rank |-> 1],
                            [office_id |-> 4, value |-> 40, rank |-> 2],
                            [office_id |-> 1, value |-> 120, rank |-> 3] >>

C3_Witness ==
    /\ pc = "done"
    /\ selectedMetric = "backlog_in_lab"
    /\ data = Entries(<<120, Null, 40, 40>>)
    /\ Len(rankings) = 3

C3_WitnessHigher ==
    /\ pc = "done"
    /\ selectedMetric = "revenue"
    /\ data = Entries(<<40, 120, 40, 0>>)
    /\ rankings[2].office_id = 1
    /\ rankings[3].office_id = 3

-----------------------------------------------------------------------------
(* SpecAlerts: generateAlerts over bounded office summaries *)

AlertValues == {Undefined, Null, 0, 10, 15, 16, 20, 21, 25, 26, 50, 51, 100, 101}

Offices == [has_financial : BOOLEAN, has_operations : BOOLEAN,
            has_volume : BOOLEAN, has_notes : BOOLEAN,
            lab_exp_percent : AlertValues, personnel_percent : AlertValues,
            backlog_count : AlertValues]

InitAlerts ==
    /\ pc = "call"
    /\ office \in Offices
    /\ alerts = <<>>
    /\ RankerParked
    /\ ViewsParked
    /\ HarnessParked

CallGenerateAlerts ==
    /\ pc = "call"
    /\ alerts' = generateAlerts(office)
    /\ pc' = "done"
    /\ UNCHANGED <<office, rankerVars_noPc, viewVars, harnessVars>>

NextAlerts == CallGenerateAlerts

SpecAlerts == InitAlerts /\ [][NextAlerts]_vars

AlertTexts == {"Lab expenses at ", "Personnel at ", "Backlog: "}

\* the alerts about one metric, recognised by how their message starts
AlertsAbout(text) == {i \in DOMAIN alerts : alerts[i].message[1] = text}

\* the severity shown for one metric, "none" when it has no alert
SeverityAbout(text) ==
    IF AlertsAbout(text) = {} THEN "none"
    ELSE alerts[CHOOSE i \in AlertsAbout(text) : TRUE].severity

AnyPresenceFlag == office.has_financial \/ office.has_operations \/ office.has_volume

\* C4: with all three presence flags false generateAlerts returns exactly one
\* alert, of severity info, whatever the metric values and has_notes are.
C4_NoDataSingleInfo ==
    (pc = "done" /\ ~AnyPresenceFlag) =>
        /\ Len(alerts) = 1
        /\ alerts[1].severity = "info"
        /\ \A t \in AlertTexts : AlertsAbout(t) = {}

C4_Witness ==
    /\ pc = "done"
    /\ ~AnyPresenceFlag
    /\ office.has_notes
    /\ office.lab_exp_percent = 26
    /\ office.personnel_percent = 21
    /\ office.backlog_count = 101
    /\ Len(alerts) = 1

\* C5: at most one alert per metric; a value above both thresholds yields only
\* the critical alert; lab_exp_percent = 26 with personnel_percent = 10 and
\* no backlog alert gives exactly one alert, critical for lab expenses.
C5_OneAlertPerMetric ==
    pc = "done" =>
        /\ \A t \in AlertTexts : Cardinality(AlertsAbout(t)) <= 1
        /\ (AnyPresenceFlag /\ office.lab_exp_percent > 25)
              => \A i \in AlertsAbout("Lab expenses at ") : alerts[i].severity = "critical"
        /\ (AnyPresenceFlag /\ office.personnel_percent > 20)
              => \A i \in AlertsAbout("Personnel at ") : alerts[i].severity = "critical"
        /\ (AnyPresenceFlag /\ office.backlog_count > 100)
              => \A i \in AlertsAbout("Backlog: ") : alerts[i].severity = "critical"
        /\ (/\ AnyPresenceFlag
            /\ office.lab_exp_percent = 26
            /\ office.personnel_percent = 10
            /\ office.backlog_count \in {Undefined, Null, 0, 50})
           => /\ Len(alerts) = 1
              /\ alerts[1].severity = "critical"
              /\ alerts[1].message[1] = "Lab expenses at "

C5_Witness ==
    /\ pc = "done"
    /\ office.has_financial
    /\ office.lab_exp_percent = 26
    /\ office.personnel_percent = 10
    /\ office.backlog_count = Undefined
    /\ Len(alerts) = 1

\* C6: with a presence flag set and a numeric value, lab expense % is critical
\* iff > 25, warning iff > 20 and <= 25, without alert iff <= 20; personnel %
\* likewise with 20 and 15; backlog count likewise with 100 and 50.
Expected(v, warn, crit) ==
    IF v > crit THEN "critical" ELSE IF v > warn THEN "warning" ELSE "none"

C6_StrictThresholds ==
    (pc = "done" /\ AnyPresenceFlag) =>
        /\ office.lab_exp_percent >= 0
              => SeverityAbout("Lab expenses at ") = Expected(office.lab_exp_percent, 20, 25)
        /\ office.personnel_percent >= 0
              => SeverityAbout("Personnel at ") = Expected(office.personnel_percent, 15, 20)
        /\ office.backlog_count >= 0
              => SeverityAbout("Backlog: ") = Expected(office.backlog_count, 50, 100)

C6_Witness ==
    /\ pc = "done"
    /\ AnyPresenceFlag
    /\ office.lab_exp_percent = 25
    /\ office.personnel_percent = 15
    /\ office.backlog_count = 100
    /\ SeverityAbout("Lab expenses at ") = "warning"
    /\ SeverityAbout("Personnel at ") = "none"
    /\ SeverityAbout("Backlog: ") = "warning"

-----------------------------------------------------------------------------
(* Spec: the Overview and Rankings views *)

PeriodButtons == {"current_month", "last_month", "qtd", "ytd"}
CustomMonthOptions == 1..12
CustomYearOptions == {2024, 2025, 2026}

\* what the user picks in the model: three of the twelve months, three of the
\* seven metrics (the default and two lower-is-better ones)
PickedMonths == {1, 7, 12}
PickedMetrics == {"revenue", "lab_expense_percent", "backlog_in_lab"}

\* payloads get_office_rankings answers with
ViewData == {<<>>, Entries(<<40, Null, 0>>), Entries(<<0, 120, 120>>)}

\* the OfficeSummary[] the repository holds for a range, named by the range
DashboardData(range) == [fetchedFor |-> range]

Request(cmd, metric, range) == [cmd |-> cmd, metric |-> metric, range |-> range]

Without(seq, i) == SubSeq(seq, 1, i - 1) \o SubSeq(seq, i + 1, Len(seq))

\* Overview.tsx loadDashboardData up to the await, run by a render whose state
\* is (period, cMonth, cYear)
loadDashboardData(period, cMonth, cYear) ==
    /\ Len(inflight) < MaxInflight
    /\ loading' = TRUE
    /\ error' = "null"
    /\ inflight' = Append(inflight,
           Request("get_dashboard_data", "",
                   Overview_getDateRange(period, today, cMonth, cYear)))

\* useEffect(..., [selectedPeriod, customRange]): customRange is never set, so
\* the effect runs when selectedPeriod changed
OverviewEffect(period, cMonth, cYear) ==
    IF period # selectedPeriod
    THEN loadDashboardData(period, cMonth, cYear)
    ELSE UNCHANGED <<loading, error, inflight>>

\* Rankings.tsx loadRankings up to the await
loadRankings(metric, period) ==
    /\ Len(inflight) < MaxInflight
    /\ loading' = TRUE
    /\ inflight' = Append(inflight,
           Request("get_office_rankings", metric, Rankings_getDateRange(period, today)))

InitOverview ==
    /\ page = "Overview"
    /\ selectedPeriod = "current_month"
    /\ customMonth = today.month
    /\ customYear = today.year
    /\ showCustomPicker = FALSE
    /\ loading = TRUE
    /\ error = "null"
    /\ allOffices = [fetchedFor |-> NoRange]
    /\ inflight = <<Request("get_dashboard_data", "",
                            Overview_getDateRange("current_month", today, today.month, today.year))>>
    /\ selectedMetric = "revenue"
    /\ rankings = <<>>

InitRankings ==
    /\ page = "Rankings"
    /\ selectedMetric = "revenue"
    /\ selectedPeriod = "current_month"
    /\ rankings = <<>>
    /\ loading = TRUE
    /\ inflight = <<Request("get_office_rankings", "revenue",
                            Rankings_getDateRange("current_month", today))>>
    /\ customMonth = 0
    /\ customYear = 0
    /\ showCustomPicker = FALSE
    /\ error = "null"
    /\ allOffices = [fetchedFor |-> NoRange]

\* new Date() is read at every call; within one session of the model it keeps
\* yielding the month the view was mounted in.
Init ==
    /\ pc = "mounted"
    /\ data = <<>>
    /\ AlertsParked
    /\ HarnessParked
    /\ rankingsFor = NoRequest
    /\ officeFailed = FALSE
    /\ ListsParked
    /\ SelectorParked
    /\ FormParked
    /\ today \in {[year |-> FirstYear, month |-> m] : m \in 1..12}
    /\ (InitOverview \/ InitRankings)

OverviewShown_whileLoading == page = "Overview" /\ error = "null"
\* the main Overview markup is rendered only past the two early returns
OverviewShown == page = "Overview" /\ ~loading /\ error = "null"

Overview_ClickPeriod(p) ==
    /\ OverviewShown
    /\ p # selectedPeriod
    /\ selectedPeriod' = p
    /\ OverviewEffect(p, customMonth, customYear)
    /\ UNCHANGED <<customMonth, customYear, showCustomPicker, allOffices>>
    /\ UNCHANGED officeFailed
    /\ UNCHANGED overviewFrame

Overview_ClickCustom ==
    /\ OverviewShown
    /\ showCustomPicker' = ~showCustomPicker
    /\ IF ~showCustomPicker
       THEN /\ selectedPeriod' = "custom"
            /\ OverviewEffect("custom", customMonth, customYear)
       ELSE UNCHANGED <<selectedPeriod, loading, error, inflight>>
    /\ UNCHANGED <<customMonth, customYear, allOffices>>
    /\ UNCHANGED officeFailed
    /\ UNCHANGED overviewFrame

Overview_ChangeCustomMonth(m) ==
    /\ OverviewShown
    /\ showCustomPicker
    /\ m # customMonth
    /\ customMonth' = m
    /\ selectedPeriod' = "custom"
    /\ OverviewEffect("custom", m, customYear)
    /\ UNCHANGED <<customYear, showCustomPicker, allOffices>>
    /\ UNCHANGED officeFailed
    /\ UNCHANGED overviewFrame

Overview_ChangeCustomYear(y) ==
    /\ OverviewShown
    /\ showCustomPicker
    /\ y # customYear
    /\ customYear' = y
    /\ selectedPeriod' = "custom"
    /\ OverviewEffect("custom", customMonth, y)
    /\ UNCHANGED <<customMonth, showCustomPicker, allOffices>>
    /\ UNCHANGED officeFailed
    /\ UNCHANGED overviewFrame

Overview_Apply ==
    /\ OverviewShown
    /\ showCustomPicker
    /\ loadDashboardData(selectedPeriod, customMonth, customYear)
    /\ showCustomPicker' = FALSE
    /\ UNCHANGED <<selectedPeriod, customMonth, customYear, allOffices>>
    /\ UNCHANGED officeFailed
    /\ UNCHANGED overviewFrame

Overview_Cancel ==
    /\ OverviewShown
    /\ showCustomPicker
    /\ showCustomPicker' = FALSE
    /\ selectedPeriod' = "current_month"
    /\ OverviewEffect("current_month", customMonth, customYear)
    /\ UNCHANGED <<customMonth, customYear, allOffices>>
    /\ UNCHANGED officeFailed
    /\ UNCHANGED overviewFrame

Overview_Refresh ==
    /\ OverviewShown
    /\ loadDashboardData(selectedPeriod, customMonth, customYear)
    /\ UNCHANGED <<selectedPeriod, customMonth, customYear, showCustomPicker, allOffices>>
    /\ UNCHANGED officeFailed
    /\ UNCHANGED overviewFrame

Overview_Retry ==
    /\ page = "Overview"
    /\ ~loading
    /\ error # "null"
    /\ loadDashboardData(selectedPeriod, customMonth, customYear)
    /\ UNCHANGED <<selectedPeriod, customMonth, customYear, showCustomPicker, allOffices>>
    /\ UNCHANGED officeFailed
    /\ UNCHANGED overviewFrame

\* get_dashboard_data resolves: setAllOffices(data), finally setLoading(false).
\* The command's implementation is not part of the sources; `failed` says
\* whether the repository failed for one office while it ran, and the command
\* can hand that to invoke() only as a resolved array or as a rejection.
Overview_Resolve(i, failed) ==
    /\ page = "Overview"
    /\ inflight[i].cmd = "get_dashboard_data"
    /\ allOffices' = DashboardData(inflight[i].range)
    /\ officeFailed' = failed
    /\ loading' = FALSE
    /\ inflight' = Without(inflight, i)
    /\ UNCHANGED <<selectedPeriod, customMonth, customYear, showCustomPicker, error>>
    /\ UNCHANGED overviewFrame

Overview_Reject_dropsOffices(i, failed) ==
    /\ page = "Overview"
    /\ inflight[i].cmd = "get_dashboard_data"
    /\ officeFailed' = failed
    /\ error' = "Failed to load dashboard data. Please try again."
    /\ loading' = FALSE
    /\ inflight' = Without(inflight, i)
    /\ allOffices' = [fetchedFor |-> NoRange]
    /\ UNCHANGED <<selectedPeriod, customMonth, customYear, showCustomPicker>>
    /\ UNCHANGED overviewFrame
\* get_dashboard_data rejects: setError(...), finally setLoading(false)
Overview_Reject(i, failed) ==
    /\ page = "Overview"
    /\ inflight[i].cmd = "get_dashboard_data"
    /\ officeFailed' = failed
    /\ error' = "Failed to load dashboard data. Please try again."
    /\ loading' = FALSE
    /\ inflight' = Without(inflight, i)
    /\ UNCHANGED <<selectedPeriod, customMonth, customYear, showCustomPicker, allOffices>>
    /\ UNCHANGED overviewFrame

\* the metric <select> and the period buttons stay enabled while loading
Rankings_SelectMetric(m) ==
    /\ page = "Rankings"
    /\ m # selectedMetric
    /\ selectedMetric' = m
    /\ loadRankings(m, selectedPeriod)
    /\ UNCHANGED <<selectedPeriod, rankings>>
    /\ UNCHANGED rankingsFor
    /\ UNCHANGED rankingsFrame

Rankings_ClickPeriod(p) ==
    /\ page = "Rankings"
    /\ p # selectedPeriod
    /\ selectedPeriod' = p
    /\ loadRankings(selectedMetric, p)
    /\ UNCHANGED <<selectedMetric, rankings>>
    /\ UNCHANGED rankingsFor
    /\ UNCHANGED rankingsFrame

\* get_office_rankings resolves: the continuation sorts with the metric of the
\* render that issued the call
Rankings_Resolve(i, d) ==
    /\ page = "Rankings"
    /\ inflight[i].cmd = "get_office_rankings"
    /\ rankings' = sortAndRankData(d, inflight[i].metric)
    /\ loading' = FALSE
    /\ inflight' = Without(inflight, i)
    /\ UNCHANGED <<selectedMetric, selectedPeriod>>
    /\ rankingsFor' = inflight[i]
    /\ UNCHANGED rankingsFrame

Rankings_Reject_keepsRankings(i) ==
    /\ page = "Rankings"
    /\ inflight[i].cmd = "get_office_rankings"
    /\ rankings' = rankings
    /\ loading' = FALSE
    /\ inflight' = Without(inflight, i)
    /\ UNCHANGED <<selectedMetric, selectedPeriod>>
    /\ rankingsFor' = inflight[i]
    /\ UNCHANGED rankingsFrame
Rankings_Reject(i) ==
    /\ page = "Rankings"
    /\ inflight[i].cmd = "get_office_rankings"
    /\ rankings' = <<>>
    /\ loading' = FALSE
    /\ inflight' = Without(inflight, i)
    /\ UNCHANGED <<selectedMetric, selectedPeriod>>
    /\ rankingsFor' = inflight[i]
    /\ UNCHANGED rankingsFrame

Next ==
    \/ \E p \in PeriodButtons : Overview_ClickPeriod(p)
    \/ Overview_ClickCustom
    \/ \E m \in PickedMonths \cap CustomMonthOptions : Overview_ChangeCustomMonth(m)
    \/ \E y \in CustomYearOptions : Overview_ChangeCustomYear(y)
    \/ Overview_Apply
    \/ Overview_Cancel
    \/ Overview_Refresh
    \/ Overview_Retry
    \/ \E i \in DOMAIN inflight, failed \in BOOLEAN : Overview_Resolve(i, failed)
    \/ \E i \in DOMAIN inflight, failed \in BOOLEAN : Overview_Reject(i, failed)
    \/ \E m \in PickedMetrics \cap MetricType : Rankings_SelectMetric(m)
    \/ \E p \in PeriodButtons : Rankings_ClickPeriod(p)
    \/ \E i \in DOMAIN inflight, d \in ViewData : Rankings_Resolve(i, d)
    \/ \E i \in DOMAIN inflight : Rankings_Reject(i)

Spec == Init /\ [][Next]_vars

-----------------------------------------------------------------------------
(* Period resolution in the views *)

ViewMounted == page \in {"Overview", "Rankings"}

\* what getDateRange returns in the current state of the mounted view when
\* new Date() yields `now`
RangeAt(now) ==
    IF page = "Overview"
    THEN Overview_getDateRange(selectedPeriod, now, customMonth, customYear)
    ELSE Rankings_getDateRange(selectedPeriod, now)

CurrentRange == RangeAt(today)

\* the ranges getDateRange returned to the load calls still pending
IssuedRanges == {inflight[i].range : i \in DOMAIN inflight}

AnyDate == [year : (FirstYear - 1)..(FirstYear + 1), month : 1..12]

StartBeforeEnd(r) ==
    \/ r.startYear < r.endYear
    \/ r.startYear = r.endYear /\ r.startMonth <= r.endMonth

\* C7: in every reachable state of the Overview and Rankings views, at any
\* current date, the range getDateRange returns has
\* (startYear, startMonth) <= (endYear, endMonth); so has every range a
\* pending load was issued with.
C7_RangeStartBeforeEnd ==
    ViewMounted =>
        /\ \A now \in AnyDate : StartBeforeEnd(RangeAt(now))
        /\ \A r \in IssuedRanges : StartBeforeEnd(r)

\* reached through custom picks, Apply and a period button
C7_Witness ==
    /\ page = "Overview"
    /\ today.month = 5
    /\ selectedPeriod = "qtd"
    /\ customMonth = 12
    /\ customYear = 2024
    /\ allOffices.fetchedFor = DateRange(2024, 12, 2024, 12)
    /\ IssuedRanges = {DateRange(today.year, 4, today.year, 5)}

\* ceil(m / 3) as the quarter q with 3(q-1) < m <= 3q
QuarterOf(m) == CHOOSE q \in 1..4 : 3 * (q - 1) < m /\ m <= 3 * q

\* C8: for qtd and current month m the range starts in month
\* (ceil(m/3) - 1) * 3 + 1, one of 1, 4, 7, 10, ends in month m with
\* start <= end <= start + 2, and both years are the current year.
C8_QtdRange ==
    (ViewMounted /\ selectedPeriod = "qtd") =>
        LET r == CurrentRange
            m == today.month
        IN  /\ r.startMonth = (QuarterOf(m) - 1) * 3 + 1
            /\ r.startMonth \in {1, 4, 7, 10}
            /\ r.endMonth = m
            /\ r.startMonth <= r.endMonth
            /\ r.endMonth <= r.startMonth + 2
            /\ r.startYear = today.year
            /\ r.endYear = today.year

C8_Witness ==
    /\ page = "Rankings"
    /\ selectedPeriod = "qtd"
    /\ today.month = 12
    /\ \E i \in DOMAIN inflight :
          inflight[i].range = DateRange(today.year, 10, today.year, 12)

\* months counted from year 0
MonthIndex(y, m) == 12 * y + (m - 1)

\* C9: for last_month at (y, m) the range is the single month (y, m - 1) when
\* m > 1 and (y - 1, 12) when m = 1: a month in 1..12, the calendar month
\* right before the current one.
C9_LastMonthRange ==
    (ViewMounted /\ selectedPeriod = "last_month") =>
        LET r == CurrentRange
        IN  /\ r.startYear = r.endYear
            /\ r.startMonth = r.endMonth
            /\ r.startMonth \in 1..12
            /\ today.month > 1 => (r.startYear = today.year /\ r.startMonth = today.month - 1)
            /\ today.month = 1 => (r.startYear = today.year - 1 /\ r.startMonth = 12)
            /\ MonthIndex(r.startYear, r.startMonth) + 1 = MonthIndex(today.year, today.month)

C9_Witness ==
    /\ page = "Overview"
    /\ selectedPeriod = "last_month"
    /\ today.month = 1
    /\ ~loading
    /\ allOffices.fetchedFor = DateRange(today.year - 1, 12, today.year - 1, 12)

\* C10: for ytd at (y, m) the range is (y, 1) to (y, m); for current_month it
\* is the single month (y, m).
C10_YtdAndCurrentMonthRange ==
    ViewMounted =>
        /\ selectedPeriod = "ytd" =>
              CurrentRange = [startYear |-> today.year, startMonth |-> 1,
                              endYear |-> today.year, endMonth |-> today.month]
        /\ selectedPeriod = "current_month" =>
              CurrentRange = [startYear |-> today.year, startMonth |-> today.month,
                              endYear |-> today.year, endMonth |-> today.month]

C10_Witness ==
    /\ page = "Overview"
    /\ selectedPeriod = "ytd"
    /\ today.month = 6
    /\ ~loading
    /\ allOffices.fetchedFor.startMonth = 1
    /\ allOffices.fetchedFor.endMonth = 6

-----------------------------------------------------------------------------
(* SpecPeriod: getDateRange of either view over every value of its inputs' types *)

\* months and years a caller may hand in as the chosen custom month: the
\* picker's, and numbers outside the calendar
ChosenMonths == {0, 1, 6, 12, 13}
ChosenYears == {1999, 2024, 2026}

InitPeriod ==
    /\ pc = "call"
    /\ page \in {"Overview", "Rankings"}
    /\ today \in [year : {FirstYear}, month : 1..12]
    /\ selectedPeriod \in TimePeriod
    /\ customMonth \in ChosenMonths
    /\ customYear \in ChosenYears
    /\ returnedRange = NoRange
    /\ ListsParked
    /\ SelectorParked
    /\ FormParked
    /\ showCustomPicker = FALSE
    /\ loading = FALSE
    /\ error = "null"
    /\ allOffices = [fetchedFor |-> NoRange]
    /\ inflight = <<>>
    /\ rankingsFor = NoRequest
    /\ officeFailed = FALSE
    /\ dataStatus = ""
    /\ history = <<>>
    /\ complianceRecord = NoCompliance
    /\ RankerParked
    /\ AlertsParked

CallGetDateRange ==
    /\ pc = "call"
    /\ returnedRange' = IF page = "Overview"
                        THEN Overview_getDateRange(selectedPeriod, today, customMonth, customYear)
                        ELSE Rankings_getDateRange(selectedPeriod, today)
    /\ pc' = "done"
    /\ UNCHANGED <<rankerVars_noPc, alertVars, viewVars, dataStatus, history, complianceRecord>>

NextPeriod == CallGetDateRange

SpecPeriod == InitPeriod /\ [][NextPeriod]_vars

C11_OverviewCustomPassThrough ==
    (pc = "done" /\ selectedPeriod = "custom" /\ page = "Overview") =>
        returnedRange = [startYear |-> customYear, startMonth |-> customMonth,
                         endYear |-> customYear, endMonth |-> customMonth]

C11_OverviewWitness ==
    /\ pc = "done"
    /\ page = "Overview"
    /\ selectedPeriod = "custom"
    /\ customMonth = 13
    /\ returnedRange.startMonth = 13

-----------------------------------------------------------------------------
(* SpecStatus: getDataStatus over every combination of the presence flags *)

BoolToNum(b) == IF b THEN 1 ELSE 0

getDataStatus_withNotes(o) ==
    LET count == BoolToNum(o.has_financial) + BoolToNum(o.has_operations)
                 + BoolToNum(o.has_volume) + BoolToNum(o.has_notes)
    IN  IF count >= 3 THEN "complete"
        ELSE IF count > 0 THEN "partial"
        ELSE "none"
getDataStatus(o) ==
    LET count == BoolToNum(o.has_financial) + BoolToNum(o.has_operations)
                 + BoolToNum(o.has_volume)
    IN  IF count = 3 THEN "complete"
        ELSE IF count > 0 THEN "partial"
        ELSE "none"

StatusOffices == [has_financial : BOOLEAN, has_operations : BOOLEAN,
                  has_volume : BOOLEAN, has_notes : BOOLEAN,
                  lab_exp_percent : {Undefined, 0, 26},
                  personnel_percent : {Undefined, 16},
                  backlog_count : {Undefined, Null}]

InitStatus ==
    /\ pc = "call"
    /\ office \in StatusOffices
    /\ alerts = <<>>
    /\ dataStatus = ""
    /\ returnedRange = NoRange
    /\ history = <<>>
    /\ complianceRecord = NoCompliance
    /\ RankerParked
    /\ ViewsParked

CallGetDataStatus ==
    /\ pc = "call"
    /\ dataStatus' = getDataStatus(office)
    /\ pc' = "done"
    /\ UNCHANGED <<rankerVars_noPc, alertVars, viewVars, returnedRange, history, complianceRecord>>

NextStatus == CallGetDataStatus

SpecStatus == InitStatus /\ [][NextStatus]_vars

\* C12: getDataStatus is complete exactly when the financial, operations and
\* volume flags are all true, none exactly when all three are false, partial
\* otherwise; the has_notes flag (and every other field) has no influence.
C12_DataStatusFromThreeFlags ==
    pc = "done" =>
        /\ dataStatus \in {"complete", "partial", "none"}
        /\ dataStatus = "complete" <=>
               (office.has_financial /\ office.has_operations /\ office.has_volume)
        /\ dataStatus = "none" <=>
               (~office.has_financial /\ ~office.has_operations /\ ~office.has_volume)

C12_Witness ==
    /\ pc = "done"
    /\ office.has_notes
    /\ office.has_financial /\ office.has_volume /\ ~office.has_operations
    /\ dataStatus = "partial"

-----------------------------------------------------------------------------
(* Claims about generateAlerts, continued (SpecAlerts) *)

\* position of the rule that produced an alert, in the order of the source
RuleIndex(a) ==
    CASE a.message[1] = "Lab expenses at " -> 1
      [] a.message[1] = "Personnel at " -> 2
      [] a.message[1] = "Backlog: " -> 3
      [] OTHER -> 0

\* C13: the alerts generateAlerts returns are in rule order, lab expense,
\* then personnel cost, then backlog, whatever their severities.
C13_AlertsInRuleOrder ==
    pc = "done" =>
        \A i, j \in DOMAIN alerts : i < j => RuleIndex(alerts[i]) < RuleIndex(alerts[j])

C13_Witness ==
    /\ pc = "done"
    /\ Len(alerts) = 3
    /\ alerts[1].severity = "warning" /\ RuleIndex(alerts[1]) = 1
    /\ alerts[2].severity = "critical" /\ RuleIndex(alerts[2]) = 2
    /\ alerts[3].severity = "critical" /\ RuleIndex(alerts[3]) = 3

IsAbsent(v) == v = Undefined \/ v = Null

\* C14: when at least one presence flag is set, a metric that is absent
\* (undefined or null) produces no alert, and the alerts of the other two
\* metrics are what they are when the metric is present and below threshold.
C14_AbsentMetricNoAlert ==
    (pc = "done" /\ AnyPresenceFlag) =>
        /\ IsAbsent(office.lab_exp_percent) =>
              /\ AlertsAbout("Lab expenses at ") = {}
              /\ SeverityAbout("Personnel at ") = Expected(office.personnel_percent, 15, 20)
              /\ SeverityAbout("Backlog: ") = Expected(office.backlog_count, 50, 100)
        /\ IsAbsent(office.personnel_percent) =>
              /\ AlertsAbout("Personnel at ") = {}
              /\ SeverityAbout("Lab expenses at ") = Expected(office.lab_exp_percent, 20, 25)
              /\ SeverityAbout("Backlog: ") = Expected(office.backlog_count, 50, 100)
        /\ IsAbsent(office.backlog_count) =>
              /\ AlertsAbout("Backlog: ") = {}
              /\ SeverityAbout("Lab expenses at ") = Expected(office.lab_exp_percent, 20, 25)
              /\ SeverityAbout("Personnel at ") = Expected(office.personnel_percent, 15, 20)

C14_Witness ==
    /\ pc = "done"
    /\ AnyPresenceFlag
    /\ office.personnel_percent = Null
    /\ office.lab_exp_percent = 26
    /\ office.backlog_count = 51
    /\ Len(alerts) = 2

C14_WitnessUndefined ==
    /\ pc = "done"
    /\ AnyPresenceFlag
    /\ office.lab_exp_percent = Undefined
    /\ office.personnel_percent = 16
    /\ Len(alerts) = 1

-----------------------------------------------------------------------------
(* SpecLoad: one loadRankings call of the Rankings view settling, over every
   payload the backend may return, and the quick stats rendered from it *)

\* Math.round(n / d) for n >= 0, d > 0
MathRound(n, d) == (2 * n + d) \div (2 * d)

\* formatValue of the number n / d; the text is <<prefix, integer part,
\* fraction digits, suffix>> (the grouping of toLocaleString is left out)
formatValue(n, d, metric) ==
    IF metric = "revenue"
    THEN <<"$", MathRound(n, d), <<>>, "">>
    ELSE IF metric \in {"lab_expense_percent", "personnel_expense_percent"}
    THEN LET tenths == MathRound(10 * n, d)
         IN  <<"", tenths \div 10, <<tenths % 10>>, "%">>
    ELSE IF metric = "data_completeness"
    THEN <<"", MathRound(n, d), <<>>, "%">>
    ELSE <<"", MathRound(n, d), <<>>, "">>

NoStats == [best |-> <<"--">>, average |-> <<"--">>, worst |-> <<"--">>]

RECURSIVE Sum(_)
Sum(values) == IF values = <<>> THEN 0 ELSE Head(values) + Sum(Tail(values))

StatValues(rk) ==
    LET all == [i \in DOMAIN rk |-> rk[i].value]
    IN  SelectSeq(all, LAMBDA v : v # Null)

getQuickStats(rk, metric) ==
    IF Len(rk) = 0 THEN NoStats
    ELSE LET values == StatValues(rk)
         IN  IF Len(values) = 0 THEN NoStats
             ELSE [best    |-> formatValue(values[1], 1, metric),
                   average |-> formatValue(Sum(values), Len(values), metric),
                   worst   |-> formatValue(values[Len(values)], 1, metric)]

\* what the view showed before this load
EarlierRankings(metric) == {<<>>, sortAndRankData(Entries(<<40, 120>>), metric)}

InitLoad ==
    /\ pc \in {"resolves", "rejects"}
    /\ page = "Rankings"
    /\ today = [year |-> FirstYear, month |-> 5]
    /\ data \in DataLists
    /\ selectedMetric \in MetricType
    /\ selectedPeriod = "current_month"
    /\ rankings \in EarlierRankings(selectedMetric)
    /\ loading = TRUE
    /\ inflight = <<Request("get_office_rankings", selectedMetric,
                            Rankings_getDateRange(selectedPeriod, today))>>
    /\ rankingsFor = NoRequest
    /\ customMonth = 0
    /\ customYear = 0
    /\ showCustomPicker = FALSE
    /\ error = "null"
    /\ allOffices = [fetchedFor |-> NoRange]
    /\ officeFailed = FALSE
    /\ ListsParked
    /\ SelectorParked
    /\ FormParked
    /\ AlertsParked
    /\ HarnessParked

LoadResolves ==
    /\ pc = "resolves"
    /\ inflight # <<>>
    /\ Rankings_Resolve(1, data)

LoadRejects ==
    /\ pc = "rejects"
    /\ inflight # <<>>
    /\ Rankings_Reject(1)

NextLoad == LoadResolves \/ LoadRejects

SpecLoad == InitLoad /\ [][NextLoad]_vars

LoadSettled == page = "Rankings" /\ inflight = <<>> /\ rankingsFor # NoRequest

\* C15: when no entry carries a value (empty payload, every value null, or a
\* failed load) the rankings are empty and getQuickStats returns '--' for
\* best, average and worst; the average is never a division by zero.
C15_NoValuesGiveEmptyStats ==
    /\ (LoadSettled /\ (pc = "rejects" \/ PresentCount = 0)) =>
          /\ rankings = <<>>
          /\ getQuickStats(rankings, selectedMetric) = NoStats
    /\ (page = "Rankings" /\ getQuickStats(rankings, selectedMetric) # NoStats) =>
          Len(StatValues(rankings)) > 0

C15_Witness ==
    /\ LoadSettled
    /\ pc = "resolves"
    /\ Len(data) = 3
    /\ PresentCount = 0
    /\ rankings = <<>>

C15_WitnessFailed ==
    /\ LoadSettled
    /\ pc = "rejects"
    /\ PresentCount > 0
    /\ rankings = <<>>

C15_WitnessStats ==
    /\ LoadSettled
    /\ selectedMetric = "lab_expense_percent"
    /\ getQuickStats(rankings, selectedMetric).average = <<"", 53, <<3>>, "%">>

-----------------------------------------------------------------------------
(* Claims about the views' loads (Spec) *)

\* C16: in the Rankings view a response that arrives after a newer request was
\* issued is discarded: once every request has settled, the rankings shown
\* were computed for the metric and period now selected and sorted with that
\* metric's direction.
C16_SettledRankingsAreCurrent ==
    (page = "Rankings" /\ inflight = <<>> /\ rankingsFor # NoRequest) =>
        /\ rankingsFor.metric = selectedMetric
        /\ rankingsFor.range = Rankings_getDateRange(selectedPeriod, today)

\* C17: in every idle state of the Overview view (not loading, no error) the
\* offices shown were fetched for exactly the range that getDateRange and the
\* period label report for the current selection, a changed custom month or
\* year included.
C17_IdleDataMatchesSelection ==
    (OverviewShown /\ allOffices.fetchedFor # NoRange) =>
        allOffices.fetchedFor = Overview_getDateRange(selectedPeriod, today, customMonth, customYear)

\* what Overview returns from its render: the spinner while loading, the error
\* panel with Retry while error is set, the dashboard otherwise
Overview_Renders ==
    IF loading THEN "spinner"
    ELSE IF error # "null" THEN "error"
    ELSE "dashboard"

\* C18: when the repository failed for one office during a dashboard load,
\* the load is not aborted: once it has settled the view shows the summaries
\* that were returned, and the failure is surfaced (once) to the user.
C18_PartialResultShownAndFailureSurfaced ==
    (page = "Overview" /\ ~loading /\ officeFailed) =>
        /\ Overview_Renders = "dashboard"
        /\ allOffices.fetchedFor # NoRange
        /\ error # "null"

\* the Overview view's selection
OverviewSelection == <<selectedPeriod, customMonth, customYear, showCustomPicker>>

\* C19: a rejected get_dashboard_data ends the load with loading = false,
\* error set and allOffices at its previous value; in the error state the only
\* step is Retry, which starts the whole load again for the current
\* selection; a load that then succeeds leaves error cleared and replaces
\* allOffices with the new result.
C19_RejectKeepsDataRetryReloads ==
    [][ page = "Overview" =>
          /\ (error = "null" /\ error' # "null") =>
                /\ loading' = FALSE
                /\ allOffices' = allOffices
                /\ Len(inflight') = Len(inflight) - 1
                /\ OverviewSelection' = OverviewSelection
          /\ (~loading /\ error # "null") =>
                /\ loading' = TRUE
                /\ error' = "null"
                /\ inflight' = Append(inflight,
                       Request("get_dashboard_data", "",
                               Overview_getDateRange(selectedPeriod, today, customMonth, customYear)))
                /\ allOffices' = allOffices
                /\ OverviewSelection' = OverviewSelection
          /\ (Len(inflight') < Len(inflight) /\ error' = "null") =>
                /\ error = "null"
                /\ loading' = FALSE
                /\ \E i \in DOMAIN inflight : allOffices' = [fetchedFor |-> inflight[i].range]
      ]_vars

\* the error panel is up and the data of the load before the failed one is kept
C19_Witness ==
    /\ page = "Overview"
    /\ Overview_Renders = "error"
    /\ allOffices.fetchedFor # NoRange
    /\ allOffices.fetchedFor # Overview_getDateRange(selectedPeriod, today, customMonth, customYear)

-----------------------------------------------------------------------------
(* SpecCompliance: the compliance record of one office, computed from its
   weekly submission history (oldest to newest, 1 = submitted, 0 = missed).
   The page only displays the record; the computation is the one the design
   describes for the ComplianceTracker. *)

MaxWeeks == 10

\* recent_submissions holds the last 10 weeks
WindowLength == 10

Histories == UNION { [1..n -> {0, 1}] : n \in 0..MaxWeeks }

currentStreak_countsSubmitted(h) == Cardinality({k \in DOMAIN h : h[k] = 1})

RECURSIVE currentStreak(_)
currentStreak(h) ==
    IF h = <<>> THEN 0
    ELSE IF h[Len(h)] = 0 THEN 0
    ELSE 1 + currentStreak(SubSeq(h, 1, Len(h) - 1))

\* one pass over the weeks: `run` is the run ending at the week before Head(h),
\* `best` the longest run seen so far
RECURSIVE LongestFrom(_, _, _)
LongestFrom(h, run, best) ==
    IF h = <<>> THEN best
    ELSE LET r == IF Head(h) = 1 THEN run + 1 ELSE 0
         IN  LongestFrom(Tail(h), r, IF r > best THEN r ELSE best)

longestStreak(h) == LongestFrom(h, 0, 0)

recentSubmissions(h) ==
    IF Len(h) <= WindowLength THEN h
    ELSE SubSeq(h, Len(h) - WindowLength + 1, Len(h))

\* compliance_rate in tenths of a percent
complianceRate(h) ==
    IF Len(h) = 0 THEN 0
    ELSE (Cardinality({k \in DOMAIN h : h[k] = 1}) * 1000) \div Len(h)

ComplianceOf(h) ==
    [total_weeks        |-> Len(h),
     submitted_weeks    |-> Cardinality({k \in DOMAIN h : h[k] = 1}),
     compliance_rate    |-> complianceRate(h),
     current_streak     |-> currentStreak(h),
     longest_streak     |-> longestStreak(h),
     recent_submissions |-> recentSubmissions(h)]

InitCompliance ==
    /\ pc = "call"
    /\ history \in Histories
    /\ complianceRecord = NoCompliance
    /\ returnedRange = NoRange
    /\ dataStatus = ""
    /\ RankerParked
    /\ AlertsParked
    /\ ViewsParked

ComputeCompliance ==
    /\ pc = "call"
    /\ complianceRecord' = ComplianceOf(history)
    /\ pc' = "done"
    /\ UNCHANGED <<rankerVars_noPc, alertVars, viewVars, returnedRange, dataStatus, history>>

NextCompliance == ComputeCompliance

SpecCompliance == InitCompliance /\ [][NextCompliance]_vars

\* weeks i..j of the history were all submitted
AllSubmitted(i, j) == \A k \in i..j : history[k] = 1

\* lengths of the runs of submitted weeks that end at the last week
TrailingRuns == {n \in 0..Len(history) : AllSubmitted(Len(history) - n + 1, Len(history))}

\* lengths of the runs of submitted weeks anywhere in the history
AnyRuns == {n \in 0..Len(history) :
               \E i \in 1..(Len(history) - n + 1) : AllSubmitted(i, i + n - 1)}

ExampleHistory == <<1, 1, 0, 1, 1, 1, 1, 1, 1, 1>>

\* C20: for every weekly submission sequence, current_streak is the length of
\* the run of submitted weeks ending at the last week (0 if that week was
\* missed or there is no week), longest_streak is the longest run anywhere,
\* and current_streak <= longest_streak; the history 1,1,0,1,1,1,1,1,1,1
\* gives current_streak 7 and longest_streak 7.
C20_CurrentStreakAtMostLongest ==
    pc = "done" =>
        /\ \A n \in TrailingRuns : n <= complianceRecord.current_streak
        /\ complianceRecord.current_streak \in TrailingRuns
        /\ \A n \in AnyRuns : n <= complianceRecord.longest_streak
        /\ complianceRecord.longest_streak \in AnyRuns
        /\ complianceRecord.current_streak <= complianceRecord.longest_streak
        /\ history = ExampleHistory =>
              /\ complianceRecord.current_streak = 7
              /\ complianceRecord.longest_streak = 7

C20_Witness ==
    /\ pc = "done"
    /\ history = ExampleHistory
    /\ complianceRecord.current_streak = 7
    /\ complianceRecord.longest_streak = 7

C20_WitnessShorter ==
    /\ pc = "done"
    /\ Len(history) = 6
    /\ complianceRecord.current_streak = 1
    /\ complianceRecord.longest_streak = 3

-----------------------------------------------------------------------------
(* Claims about the quick stats (SpecLoad) *)

RankedValues == {rankings[i].value : i \in DOMAIN rankings}
MinRanked == CHOOSE v \in RankedValues : \A w \in RankedValues : v <= w
MaxRanked == CHOOSE v \in RankedValues : \A w \in RankedValues : v >= w

\* C21: when the rankings are non-empty, getQuickStats reports best = the
\* value of the rank-1 entry, worst = the value of the last-ranked entry and
\* average = the mean of all ranked values; best is the minimum and worst the
\* maximum of the ranked values for a lower-is-better metric, and the reverse
\* for a higher-is-better metric.
C21_QuickStatsBestWorstAverage ==
    (LoadSettled /\ rankings # <<>>) =>
        LET stats == getQuickStats(rankings, selectedMetric)
        IN  /\ stats.best = formatValue(rankings[1].value, 1, selectedMetric)
            /\ stats.worst = formatValue(rankings[Len(rankings)].value, 1, selectedMetric)
            /\ stats.average = formatValue(Sum([i \in DOMAIN rankings |-> rankings[i].value]),
                                           Len(rankings), selectedMetric)
            /\ lowerIsBetter(selectedMetric) =>
                  /\ stats.best = formatValue(MinRanked, 1, selectedMetric)
                  /\ stats.worst = formatValue(MaxRanked, 1, selectedMetric)
            /\ ~lowerIsBetter(selectedMetric) =>
                  /\ stats.best = formatValue(MaxRanked, 1, selectedMetric)
                  /\ stats.worst = formatValue(MinRanked, 1, selectedMetric)

\* C21, the part that holds: best, worst and average read off the ranked list.
C21_StatsReadOffRankedList ==
    (LoadSettled /\ rankings # <<>>) =>
        LET stats == getQuickStats(rankings, selectedMetric)
        IN  /\ stats.best = formatValue(rankings[1].value, 1, selectedMetric)
            /\ stats.worst = formatValue(rankings[Len(rankings)].value, 1, selectedMetric)
            /\ stats.average = formatValue(Sum([i \in DOMAIN rankings |-> rankings[i].value]),
                                           Len(rankings), selectedMetric)
            /\ ~lowerIsBetter(selectedMetric) =>
                  /\ stats.best = formatValue(MaxRanked, 1, selectedMetric)
                  /\ stats.worst = formatValue(MinRanked, 1, selectedMetric)

-----------------------------------------------------------------------------
(* getPeriodLabel of both views; a label is the tuple of the pieces the
   template literal joins *)

monthNames == <<"Jan", "Feb", "Mar", "Apr", "May", "Jun",
                "Jul", "Aug", "Sep", "Oct", "Nov", "Dec">>

\* monthNames[m - 1] of the source (0-based): undefined outside 1..12
MonthName(m) == IF m \in 1..12 THEN monthNames[m] ELSE "undefined"

Overview_getPeriodLabel_zeroBasedQuarter(period, now, cMonth, cYear) ==
    LET range == Overview_getDateRange(period, now, cMonth, cYear)
    IN  CASE period \in {"current_month", "last_month"} ->
               <<MonthName(range.startMonth), " ", range.startYear>>
          [] period = "qtd" ->
               <<"Q", MathFloorDiv(range.startMonth - 1, 3), " ", range.startYear,
                 " (", MonthName(range.startMonth), " - ", MonthName(range.endMonth), ")">>
          [] period = "ytd" ->
               <<"YTD ", range.startYear, " (Jan - ", MonthName(range.endMonth), ")">>
          [] period = "custom" ->
               <<MonthName(cMonth), " ", cYear>>
          [] OTHER -> <<>>
Overview_getPeriodLabel(period, now, cMonth, cYear) ==
    LET range == Overview_getDateRange(period, now, cMonth, cYear)
    IN  CASE period \in {"current_month", "last_month"} ->
               <<MonthName(range.startMonth), " ", range.startYear>>
          [] period = "qtd" ->
               <<"Q", MathFloorDiv(range.startMonth - 1, 3) + 1, " ", range.startYear,
                 " (", MonthName(range.startMonth), " - ", MonthName(range.endMonth), ")">>
          [] period = "ytd" ->
               <<"YTD ", range.startYear, " (Jan - ", MonthName(range.endMonth), ")">>
          [] period = "custom" ->
               <<MonthName(cMonth), " ", cYear>>
          [] OTHER -> <<>>

Rankings_getPeriodLabel(period, now) ==
    LET range == Rankings_getDateRange(period, now)
    IN  CASE period \in {"current_month", "last_month"} ->
               <<MonthName(range.startMonth), " ", range.startYear>>
          [] period = "qtd" ->
               <<"Q", MathFloorDiv(range.startMonth - 1, 3) + 1, " ", range.startYear>>
          [] period = "ytd" ->
               <<"YTD ", range.startYear>>
          [] OTHER -> <<>>

\* the label the mounted view renders in the current state
PeriodLabel ==
    IF page = "Overview"
    THEN Overview_getPeriodLabel(selectedPeriod, today, customMonth, customYear)
    ELSE Rankings_getPeriodLabel(selectedPeriod, today)

\* C22: for qtd and every current month m the label follows from the
\* resolved range: its quarter number floor((startMonth - 1) / 3) + 1 is
\* ceil(m / 3), and the Overview label names the start month and month m
\* (April gives "Q2 <year> (Apr - Apr)").
C22_QtdLabelFromRange ==
    (pc = "done" /\ selectedPeriod = "qtd") =>
        LET m == today.month
            q == QuarterOf(m)
        IN  /\ PeriodLabel[1] = "Q"
            /\ PeriodLabel[2] = q
            /\ PeriodLabel[2] = (returnedRange.startMonth - 1) \div 3 + 1
            /\ PeriodLabel[4] = today.year
            /\ page = "Overview" =>
                  PeriodLabel = <<"Q", q, " ", returnedRange.startYear, " (",
                                  MonthName(returnedRange.startMonth), " - ", MonthName(m), ")">>
            /\ (page = "Overview" /\ m = 4) =>
                  PeriodLabel = <<"Q", 2, " ", today.year, " (", "Apr", " - ", "Apr", ")">>
            /\ page = "Rankings" => Len(PeriodLabel) = 4

C22_Witness ==
    /\ pc = "done"
    /\ page = "Overview"
    /\ selectedPeriod = "qtd"
    /\ today.month = 4
    /\ returnedRange.startMonth = 4
    /\ PeriodLabel[6] = "Apr"

C22_WitnessLateQuarter ==
    /\ pc = "done"
    /\ page = "Rankings"
    /\ selectedPeriod = "qtd"
    /\ today.month = 12
    /\ PeriodLabel[2] = 4

-----------------------------------------------------------------------------
(* SpecSorts: the sorted lists the Compliance and Overview pages render, and
   the calls of the pure functions, with the arrays they are handed tracked
   as objects *)

MaxOffices == 3

\* office_name is the name's position in alphabetical order
ComplianceOffices ==
    {[office_id |-> 1, office_name |-> 3, dfo |-> "A", compliance_rate |-> 90, current_streak |-> 7],
     [office_id |-> 2, office_name |-> 1, dfo |-> "B", compliance_rate |-> 90, current_streak |-> 0],
     [office_id |-> 3, office_name |-> 2, dfo |-> "A", compliance_rate |-> 50, current_streak |-> 7],
     [office_id |-> 4, office_name |-> 4, dfo |-> "A", compliance_rate |-> 0,  current_streak |-> 0]}

OverviewOffices ==
    {[office_id |-> 1, office_name |-> 2, revenue |-> 50, lab_exp_percent |-> Undefined,
      latest_year |-> 2026, latest_month |-> 3,
      has_financial |-> TRUE, has_operations |-> FALSE, has_volume |-> FALSE],
     [office_id |-> 2, office_name |-> 3, revenue |-> Undefined, lab_exp_percent |-> 26,
      latest_year |-> Undefined, latest_month |-> Undefined,
      has_financial |-> FALSE, has_operations |-> FALSE, has_volume |-> FALSE],
     [office_id |-> 3, office_name |-> 1, revenue |-> 50, lab_exp_percent |-> 10,
      latest_year |-> 2026, latest_month |-> 5,
      has_financial |-> TRUE, has_operations |-> TRUE, has_volume |-> TRUE]}

\* the lists of at most MaxOffices different offices of a pool, in any order
ListsOf(pool) ==
    UNION { { f \in [1..n -> pool] : \A i, j \in 1..n : i # j => f[i] # f[j] } : n \in 0..MaxOffices }

ComplianceSortKeys == {"compliance", "streak", "name"}
SortOption == {"name_asc", "office_id_asc", "revenue_desc", "lab_exp_desc", "latest_first"}
DfoOptions == {"all", "A", "B"}
DataStatusOptions == {"all", "complete", "partial", "none"}

\* the comparator handed to sort on the Compliance page
Compliance_compare_ascending(a, b, key) ==
    CASE key = "compliance" -> a.compliance_rate - b.compliance_rate
      [] key = "streak" -> a.current_streak - b.current_streak
      [] key = "name" -> a.office_name - b.office_name
      [] OTHER -> 0
Compliance_compare(a, b, key) ==
    CASE key = "compliance" -> b.compliance_rate - a.compliance_rate
      [] key = "streak" -> b.current_streak - a.current_streak
      [] key = "name" -> a.office_name - b.office_name
      [] OTHER -> 0

\* the comparator handed to sort on the Overview page
Overview_compare(a, b, key) ==
    CASE key = "name_asc" -> a.office_name - b.office_name
      [] key = "office_id_asc" -> a.office_id - b.office_id
      [] key = "revenue_desc" -> OrElse(b.revenue, 0) - OrElse(a.revenue, 0)
      [] key = "lab_exp_desc" -> OrElse(b.lab_exp_percent, 0) - OrElse(a.lab_exp_percent, 0)
      [] key = "latest_first" ->
            IF a.latest_year # b.latest_year
            THEN OrElse(b.latest_year, 0) - OrElse(a.latest_year, 0)
            ELSE OrElse(b.latest_month, 0) - OrElse(a.latest_month, 0)
      [] OTHER -> 0

Compare(view, a, b, key) ==
    IF view = "Compliance" THEN Compliance_compare(a, b, key) ELSE Overview_compare(a, b, key)

\* Array.prototype.sort is stable: insertion after the elements that compare equal
RECURSIVE InsertStable(_, _, _, _)
InsertStable(x, s, view, key) ==
    IF s = <<>> THEN <<x>>
    ELSE IF Compare(view, Head(s), x, key) <= 0
         THEN <<Head(s)>> \o InsertStable(x, Tail(s), view, key)
         ELSE <<x>> \o s

RECURSIVE StableSort(_, _, _)
StableSort(s, view, key) ==
    IF s = <<>> THEN <<>>
    ELSE InsertStable(s[Len(s)], StableSort(SubSeq(s, 1, Len(s) - 1), view, key), view, key)

\* one render of the Compliance page with complianceData at reference 1
Compliance_render_sortsFiltered(cd, key, dfo) ==
    LET heap0    == (1 :> cd)
        filtered == IF dfo = "all"
                    THEN [heap |-> heap0, ref |-> 1]
                    ELSE NewArray(heap0, SelectSeq(heap0[1], LAMBDA d : d.dfo = dfo))
        sorted   == SortInPlace(filtered.heap, filtered.ref,
                                StableSort(filtered.heap[filtered.ref], "Compliance", key))
    IN  [sortedData     |-> sorted.heap[sorted.ref],
         filteredData   |-> sorted.heap[filtered.ref],
         complianceData |-> sorted.heap[1]]
Compliance_render(cd, key, dfo) ==
    LET heap0    == (1 :> cd)
        filtered == IF dfo = "all"
                    THEN [heap |-> heap0, ref |-> 1]
                    ELSE NewArray(heap0, SelectSeq(heap0[1], LAMBDA d : d.dfo = dfo))
        copy     == NewArray(filtered.heap, filtered.heap[filtered.ref])
        sorted   == SortInPlace(copy.heap, copy.ref,
                                StableSort(copy.heap[copy.ref], "Compliance", key))
    IN  [sortedData     |-> sorted.heap[sorted.ref],
         filteredData   |-> sorted.heap[filtered.ref],
         complianceData |-> sorted.heap[1]]

\* one render of the Overview page with allOffices at reference 1; of the
\* filters only the data status filter is modelled
Overview_render(all, fl, key) ==
    LET heap0    == (1 :> all)
        filtered == NewArray(heap0, SelectSeq(heap0[1],
                        LAMBDA o : fl.dataStatus = "all" \/ getDataStatus(o) = fl.dataStatus))
        copy     == NewArray(filtered.heap, filtered.heap[filtered.ref])
        sorted   == SortInPlace(copy.heap, copy.ref,
                                StableSort(copy.heap[copy.ref], "Overview", key))
    IN  [sortedOffices   |-> sorted.heap[sorted.ref],
         filteredOffices |-> sorted.heap[filtered.ref],
         allOffices      |-> sorted.heap[1]]

\* inputs of the function calls: short ranking payloads, office summaries
CallData == {d \in DataLists : Len(d) <= 2}

InitSorts ==
    /\ LoadsParked
    /\ SelectorParked
    /\ FormParked
    /\ HarnessParked
    /\ alerts = <<>>
    /\ rankings = <<>>
    /\ \/ /\ pc = "call"
          /\ page = "none"
          /\ \/ data \in CallData /\ selectedMetric \in MetricType /\ office = NoOffice
             \/ data = <<>> /\ selectedMetric = "revenue" /\ office \in StatusOffices
          /\ allOffices = [fetchedFor |-> NoRange]
          /\ ListsParked
       \/ /\ pc = "mounted"
          /\ page = "Compliance"
          /\ complianceData \in ListsOf(ComplianceOffices)
          /\ sortBy = "compliance"
          /\ dfoFilter = "all"
          /\ filters = NoFilters
          /\ allOffices = [fetchedFor |-> NoRange]
          /\ RankerParked
          /\ AlertsParked
       \/ /\ pc = "mounted"
          /\ page = "Overview"
          /\ allOffices \in {[fetchedFor |-> DateRange(FirstYear, 1, FirstYear, 1), offices |-> l] :
                                l \in ListsOf(OverviewOffices)}
          /\ sortBy = "office_id_asc"
          /\ filters = NoFilters
          /\ complianceData = <<>>
          /\ dfoFilter = ""
          /\ RankerParked
          /\ AlertsParked

sortsFrame == <<pc, page, loadVars, rankerVars_noPc, alertVars, harnessVars, selectorVars, formVars>>

\* setSortBy, then the render that follows
Compliance_SetSortBy(key) ==
    /\ page = "Compliance"
    /\ key # sortBy
    /\ sortBy' = key
    /\ complianceData' = Compliance_render(complianceData, key, dfoFilter).complianceData
    /\ UNCHANGED <<dfoFilter, filters, allOffices>>
    /\ UNCHANGED sortsFrame

\* setDfoFilter, then the render that follows
Compliance_SetDfoFilter(dfo) ==
    /\ page = "Compliance"
    /\ dfo # dfoFilter
    /\ dfoFilter' = dfo
    /\ complianceData' = Compliance_render(complianceData, sortBy, dfo).complianceData
    /\ UNCHANGED <<sortBy, filters, allOffices>>
    /\ UNCHANGED sortsFrame

Overview_SetSortBy(key) ==
    /\ page = "Overview"
    /\ key # sortBy
    /\ sortBy' = key
    /\ allOffices' = [allOffices EXCEPT !.offices = Overview_render(@, filters, key).allOffices]
    /\ UNCHANGED <<complianceData, dfoFilter, filters>>
    /\ UNCHANGED sortsFrame

Overview_SetFilters(status) ==
    /\ page = "Overview"
    /\ status # filters.dataStatus
    /\ filters' = [filters EXCEPT !.dataStatus = status]
    /\ allOffices' = [allOffices EXCEPT !.offices = Overview_render(@, filters', sortBy).allOffices]
    /\ UNCHANGED <<complianceData, dfoFilter, sortBy>>
    /\ UNCHANGED sortsFrame

NextSorts ==
    \/ CallSortAndRankData
    \/ CallGenerateAlerts
    \/ CallGetDataStatus
    \/ \E key \in ComplianceSortKeys : Compliance_SetSortBy(key)
    \/ \E dfo \in DfoOptions : Compliance_SetDfoFilter(dfo)
    \/ \E key \in SortOption : Overview_SetSortBy(key)
    \/ \E status \in DataStatusOptions : Overview_SetFilters(status)

SpecSorts == InitSorts /\ [][NextSorts]_vars

\* the lists the pages display in the current state
sortedData == Compliance_render(complianceData, sortBy, dfoFilter).sortedData
filteredData == Compliance_render(complianceData, sortBy, dfoFilter).filteredData
sortedOffices == Overview_render(allOffices.offices, filters, sortBy).sortedOffices

\* C23: the functions never modify their inputs: sortAndRankData leaves the
\* array data as it was, generateAlerts and getDataStatus leave the office
\* summary as it was, and the sorts of the Compliance and Overview pages leave
\* complianceData and allOffices in their loaded order.
C23_InputsNotModified ==
    [][ /\ data' = data
        /\ office' = office
        /\ complianceData' = complianceData
        /\ allOffices' = allOffices ]_vars

\* sortAndRankData returned a list in another order than its input
C23_Witness ==
    /\ pc = "done"
    /\ Len(data) = 2
    /\ Len(rankings) = 2
    /\ rankings[1].office_id = data[2].office_id

C23_WitnessCompliance ==
    /\ page = "Compliance"
    /\ dfoFilter = "all"
    /\ Len(complianceData) = 3
    /\ sortedData # complianceData

C23_WitnessOverview ==
    /\ page = "Overview"
    /\ Len(allOffices.offices) = 3
    /\ Len(sortedOffices) = 3
    /\ sortedOffices # allOffices.offices

\* getRankMedal(index) for the 0-based row index; "null" is no medal
getRankMedal(index) ==
    IF sortBy # "compliance" THEN "null"
    ELSE IF index = 0 THEN "gold"
    ELSE IF index = 1 THEN "silver"
    ELSE IF index = 2 THEN "bronze"
    ELSE "null"

\* the rank cell of the row at 1-based position i: {medal || index + 1},
\* as the rank it stands for
RankCell(i) ==
    LET medal == getRankMedal(i - 1)
    IN  CASE medal = "gold" -> 1
          [] medal = "silver" -> 2
          [] medal = "bronze" -> 3
          [] OTHER -> (i - 1) + 1

\* the offices the DFO filter lets through, in loaded order
DfoFiltered == SelectSeq(complianceData, LAMBDA d : dfoFilter = "all" \/ d.dfo = dfoFilter)

SortKeyOf(d) == IF sortBy = "compliance" THEN d.compliance_rate ELSE d.current_streak

LoadedPosition(d) == CHOOSE i \in DOMAIN complianceData : complianceData[i] = d

\* C24: for sort keys compliance and streak the displayed list is a
\* permutation of the DFO-filtered offices, non-increasing by compliance_rate
\* (respectively current_streak), equal keys in loaded order, ranks 1..N by
\* position; no office is dropped.
C24_ComplianceSortedDescending ==
    (page = "Compliance" /\ sortBy \in {"compliance", "streak"}) =>
        /\ Len(sortedData) = Len(DfoFiltered)
        /\ {sortedData[i] : i \in DOMAIN sortedData} = {DfoFiltered[i] : i \in DOMAIN DfoFiltered}
        /\ \A i, j \in DOMAIN sortedData : i < j =>
              /\ SortKeyOf(sortedData[i]) >= SortKeyOf(sortedData[j])
              /\ SortKeyOf(sortedData[i]) = SortKeyOf(sortedData[j]) =>
                    LoadedPosition(sortedData[i]) < LoadedPosition(sortedData[j])
        /\ \A i \in DOMAIN sortedData : RankCell(i) = i

\* a tie on the streak kept in loaded order (office 3 was loaded before office 1)
C24_Witness ==
    /\ page = "Compliance"
    /\ sortBy = "streak"
    /\ dfoFilter = "A"
    /\ Len(complianceData) = 3
    /\ Len(sortedData) = 3
    /\ sortedData[1].office_id = 3
    /\ sortedData[2].office_id = 1
    /\ sortedData[3].office_id = 4
    /\ complianceData[1].office_id = 4

-----------------------------------------------------------------------------
(* SpecForm: the notes form of the data entry page (NotesSection); the
   financial, operations and volume forms set hasUnsavedChanges and saving
   the same way *)

MaxTimers == 2

\* note texts: 0 is the empty note
NoteTexts == {0, 1, 2}

InitForm ==
    /\ pc = "mounted"
    /\ page = "DataEntry"
    /\ savedText \in NoteTexts
    /\ noteText = savedText
    /\ saving = FALSE
    /\ saveStatus = "idle"
    /\ hasUnsavedChanges = FALSE
    /\ pendingSave = <<>>
    /\ statusTimers = 0
    /\ allOffices = [fetchedFor |-> NoRange]
    /\ LoadsParked
    /\ ListsParked
    /\ SelectorParked
    /\ RankerParked
    /\ AlertsParked
    /\ HarnessParked

formFrame == <<pc, page, allOffices, loadVars, rankerVars_noPc, alertVars, harnessVars,
               listVars, selectorVars>>

\* the textarea is enabled while a save is in flight
handleNoteChange(text) ==
    /\ page = "DataEntry"
    /\ text # noteText
    /\ noteText' = text
    /\ hasUnsavedChanges' = TRUE
    /\ saveStatus' = "idle"
    /\ UNCHANGED <<saving, savedText, pendingSave, statusTimers>>
    /\ UNCHANGED formFrame

\* the Save button: disabled={saving || !hasUnsavedChanges}; handleSave up to the await
handleSave ==
    /\ page = "DataEntry"
    /\ ~saving
    /\ hasUnsavedChanges
    /\ saving' = TRUE
    /\ saveStatus' = "idle"
    /\ pendingSave' = Append(pendingSave, noteText)
    /\ UNCHANGED <<noteText, hasUnsavedChanges, savedText, statusTimers>>
    /\ UNCHANGED formFrame

\* save_note resolves
handleSave_Resolve ==
    /\ page = "DataEntry"
    /\ pendingSave # <<>>
    /\ statusTimers < MaxTimers
    /\ savedText' = Head(pendingSave)
    /\ pendingSave' = Tail(pendingSave)
    /\ saveStatus' = "success"
    /\ hasUnsavedChanges' = FALSE
    /\ statusTimers' = statusTimers + 1
    /\ saving' = FALSE
    /\ UNCHANGED noteText
    /\ UNCHANGED formFrame

\* save_note rejects
handleSave_Reject ==
    /\ page = "DataEntry"
    /\ pendingSave # <<>>
    /\ pendingSave' = Tail(pendingSave)
    /\ saveStatus' = "error"
    /\ saving' = FALSE
    /\ UNCHANGED <<noteText, hasUnsavedChanges, savedText, statusTimers>>
    /\ UNCHANGED formFrame

\* the timer set after a successful save fires
StatusTimeout ==
    /\ page = "DataEntry"
    /\ statusTimers > 0
    /\ statusTimers' = statusTimers - 1
    /\ saveStatus' = "idle"
    /\ UNCHANGED <<noteText, saving, hasUnsavedChanges, savedText, pendingSave>>
    /\ UNCHANGED formFrame

NextForm ==
    \/ \E text \in NoteTexts : handleNoteChange(text)
    \/ handleSave
    \/ handleSave_Resolve
    \/ handleSave_Reject
    \/ StatusTimeout

SpecForm == InitForm /\ [][NextForm]_vars

\* C25: in a data-entry form, for any interleaving of edits with an in-flight
\* save, hasUnsavedChanges is false only when the form content equals the
\* content last loaded or last successfully saved; an edit made while a save
\* is in flight is still flagged after the save resolves.
C25_CleanFlagMeansSavedContent ==
    (page = "DataEntry" /\ ~hasUnsavedChanges) => noteText = savedText

-----------------------------------------------------------------------------
(* Claims about requests in flight (Spec) *)

\* C26: in the Overview view at most one get_dashboard_data request is in
\* flight at any time: loading is true exactly while a request is pending, and
\* while it is true no control that starts a load is rendered.
C26_OneDashboardRequestInFlight ==
    page = "Overview" =>
        /\ Len(inflight) <= 1
        /\ loading <=> inflight # <<>>
        /\ loading => Overview_Renders = "spinner"

\* a second load of the session is running
C26_Witness ==
    /\ page = "Overview"
    /\ loading
    /\ Len(inflight) = 1
    /\ allOffices.fetchedFor # NoRange
    /\ selectedPeriod = "ytd"

\* C27: in the Rankings view loading is true in every state in which at least
\* one get_office_rankings request is still in flight, also when the metric or
\* period was changed again before an earlier request settled.
C27_LoadingWhileRequestPending ==
    (page = "Rankings" /\ inflight # <<>>) => loading

-----------------------------------------------------------------------------
(* SpecSelector: MonthOfficeSelector on the data entry page, whose
   onMonthChange stores (month, year) in selectedMonth and selectedYear *)

\* the bounds handleYearChange accepts
MinYear == 2020
MaxYear == 2050

\* how far past those bounds the model follows the arrows
YearSlack == 2

\* parseInt of what is typed into the year input; Undefined stands for NaN
TypedYears == {Undefined, 0, MinYear - 1, MinYear, 2026, MaxYear, MaxYear + 1}

\* the (month, year) handlePreviousMonth and handleNextMonth hand to onMonthChange
previousMonth_sameYear(month, year) ==
    IF month = 1 THEN <<12, year>> ELSE <<month - 1, year>>
previousMonth(month, year) ==
    IF month = 1 THEN <<12, year - 1>> ELSE <<month - 1, year>>

nextMonth(month, year) ==
    IF month = 12 THEN <<1, year + 1>> ELSE <<month + 1, year>>

InitSelector ==
    /\ pc = "mounted"
    /\ page = "DataEntry"
    /\ selectedMonth \in 1..12
    /\ selectedYear \in MinYear..MaxYear
    /\ allOffices = [fetchedFor |-> NoRange]
    /\ LoadsParked
    /\ ListsParked
    /\ FormParked
    /\ RankerParked
    /\ AlertsParked
    /\ HarnessParked

selectorFrame == <<pc, page, allOffices, loadVars, rankerVars_noPc, alertVars, harnessVars,
                   listVars, formVars>>

onMonthChange(month, year) ==
    /\ selectedMonth' = month
    /\ selectedYear' = year

handlePreviousMonth ==
    /\ page = "DataEntry"
    /\ previousMonth(selectedMonth, selectedYear)[2] >= MinYear - YearSlack
    /\ onMonthChange(previousMonth(selectedMonth, selectedYear)[1],
                     previousMonth(selectedMonth, selectedYear)[2])
    /\ UNCHANGED selectorFrame

handleNextMonth ==
    /\ page = "DataEntry"
    /\ nextMonth(selectedMonth, selectedYear)[2] <= MaxYear + YearSlack
    /\ onMonthChange(nextMonth(selectedMonth, selectedYear)[1],
                     nextMonth(selectedMonth, selectedYear)[2])
    /\ UNCHANGED selectorFrame

handleMonthSelect(month) ==
    /\ page = "DataEntry"
    /\ onMonthChange(month, selectedYear)
    /\ UNCHANGED selectorFrame

handleYearChange(year) ==
    /\ page = "DataEntry"
    /\ IF year # Undefined /\ year >= MinYear /\ year <= MaxYear
       THEN onMonthChange(selectedMonth, year)
       ELSE UNCHANGED <<selectedMonth, selectedYear>>
    /\ UNCHANGED selectorFrame

NextSelector ==
    \/ handlePreviousMonth
    \/ handleNextMonth
    \/ \E month \in 1..12 : handleMonthSelect(month)
    \/ \E year \in TypedYears : handleYearChange(year)

SpecSelector == InitSelector /\ [][NextSelector]_vars

\* C28: handlePreviousMonth and handleNextMonth are mutual inverses on
\* (month, year) with year rollover (previous of January is December of
\* year - 1, next of December is January of year + 1), and every sequence of
\* the two keeps the month in 1..12.
C28_PreviousNextInverse ==
    page = "DataEntry" =>
        LET m == selectedMonth
            y == selectedYear
            prev == previousMonth(m, y)
            next == nextMonth(m, y)
        IN  /\ m \in 1..12
            /\ nextMonth(prev[1], prev[2]) = <<m, y>>
            /\ previousMonth(next[1], next[2]) = <<m, y>>
            /\ m = 1 => prev = <<12, y - 1>>
            /\ m = 12 => next = <<1, y + 1>>
            /\ m > 1 => prev = <<m - 1, y>>
            /\ m < 12 => next = <<m + 1, y>>

\* the arrows took the selection across a year boundary
C28_Witness ==
    /\ page = "DataEntry"
    /\ selectedMonth = 12
    /\ selectedYear = MinYear - 1

\* C29: starting from a year within 2020..2050, after any sequence of
\* selector operations the selected year stays within 2020..2050.
C29_YearWithinBounds ==
    page = "DataEntry" => (selectedYear >= MinYear /\ selectedYear <= MaxYear)

-----------------------------------------------------------------------------
(* SpecCard: one render of OfficeCard for an office summary *)

CardOffices == [has_financial : BOOLEAN, has_operations : BOOLEAN,
                has_volume : BOOLEAN, has_notes : {FALSE},
                revenue : {Undefined, 0, 50},
                lab_exp_percent : {Undefined, Null, 20, 21, 26},
                personnel_percent : {Undefined, Null, 15, 16, 21},
                backlog_count : {Undefined, Null, 50, 51, 101}]

InitCard ==
    /\ pc = "call"
    /\ office \in CardOffices
    /\ alerts = <<>>
    /\ dataStatus = ""
    /\ returnedRange = NoRange
    /\ history = <<>>
    /\ complianceRecord = NoCompliance
    /\ allOffices = [fetchedFor |-> NoRange]
    /\ LoadsParked
    /\ RankerParked
    /\ ViewsParked

\* const alerts = generateAlerts(office); const dataStatus = getDataStatus(office)
RenderOfficeCard ==
    /\ pc = "call"
    /\ alerts' = generateAlerts(office)
    /\ dataStatus' = getDataStatus(office)
    /\ pc' = "done"
    /\ UNCHANGED <<office, rankerVars_noPc, viewVars, returnedRange, history, complianceRecord>>

NextCard == RenderOfficeCard

SpecCard == InitCard /\ [][NextCard]_vars

\* the metrics block is rendered when office.revenue !== undefined
MetricsShown == office.revenue # Undefined

\* text colour of a metric of the card, "hidden" when it is not rendered
ThresholdColor(v, warn, crit) ==
    IF v > crit THEN "red" ELSE IF v > warn THEN "yellow" ELSE "gray"

LabColor ==
    IF MetricsShown /\ office.lab_exp_percent # Undefined /\ office.lab_exp_percent # Null
    THEN ThresholdColor(office.lab_exp_percent, 20, 25)
    ELSE "hidden"

PersonnelColor ==
    IF MetricsShown /\ office.personnel_percent # Undefined /\ office.personnel_percent # Null
    THEN ThresholdColor(office.personnel_percent, 15, 20)
    ELSE "hidden"

BacklogColor ==
    IF MetricsShown /\ office.backlog_count # Undefined /\ office.backlog_count # Null
    THEN ThresholdColor(OrElse(office.backlog_count, 0), 50, 100)
    ELSE "hidden"

getBorderColor ==
    IF \E i \in DOMAIN alerts : alerts[i].severity = "critical" THEN "border-red-500"
    ELSE IF \E i \in DOMAIN alerts : alerts[i].severity = "warning" THEN "border-yellow-500"
    ELSE IF dataStatus = "complete" THEN "border-green-500"
    ELSE IF dataStatus = "partial" THEN "border-blue-400"
    ELSE "border-gray-300"

ColorAgrees(color, text) ==
    color # "hidden" =>
        /\ color = "red" <=> SeverityAbout(text) = "critical"
        /\ color = "yellow" <=> SeverityAbout(text) = "warning"

BorderAgrees ==
    /\ getBorderColor = "border-red-500" <=> (\E i \in DOMAIN alerts : alerts[i].severity = "critical")
    /\ getBorderColor = "border-yellow-500" <=>
          /\ ~(\E i \in DOMAIN alerts : alerts[i].severity = "critical")
          /\ \E i \in DOMAIN alerts : alerts[i].severity = "warning"
    /\ (\A i \in DOMAIN alerts : alerts[i].severity \notin {"critical", "warning"}) =>
          getBorderColor = (CASE getDataStatus(office) = "complete" -> "border-green-500"
                              [] getDataStatus(office) = "partial" -> "border-blue-400"
                              [] OTHER -> "border-gray-300")

C30_AgreeWhenDataPresent ==
    (pc = "done" /\ AnyPresenceFlag) =>
        /\ ColorAgrees(LabColor, "Lab expenses at ")
        /\ ColorAgrees(PersonnelColor, "Personnel at ")
        /\ ColorAgrees(BacklogColor, "Backlog: ")
        /\ BorderAgrees

\* C30, the part that holds: the border for every summary.
C30_BorderAgrees == pc = "done" => BorderAgrees

====
